---- MODULE Spec2Model ----
(***************************************************************************)
(* Gateway webhook ingestion (webhooksHandler.ServeHTTP / do) and the      *)
(* secret lifecycle of the action handler (GetSecrets, CreateSecret,       *)
(* UpdateSecret, DeleteSecret) of agola, as a state machine.               *)
(*                                                                         *)
(* Every request in flight has its own program counter, inputs, local      *)
(* variables, log of collaborator calls and result.  The collaborators     *)
(* (configstore client, git source, run creation, ownership resolution)    *)
(* answer nondeterministically at the moment they are called.              *)
(***************************************************************************)
EXTENDS Integers, Sequences, FiniteSets, TLC

(***************************************************************************)
(* Bounds of the model.                                                    *)
(***************************************************************************)
NumReqs == 2
MaxLinkedAccounts == 2
MaxNameLen == 3
MaxSecrets == 3

Reqs == 1..NumReqs

(***************************************************************************)
(* Errors.  An error value is a flat record: t is the Go type of the       *)
(* outermost error ("nil" for no error), kind/msg/code are the fields of   *)
(* an APIError, causeT/causeKind describe the error it wraps.              *)
(***************************************************************************)
ErrBadRequest == "BadRequest"
ErrNotExist == "NotExist"
ErrForbidden == "Forbidden"
ErrUnauthorized == "Unauthorized"
ErrInternal == "Internal"

ErrorKinds == {ErrBadRequest, ErrNotExist, ErrForbidden, ErrUnauthorized, ErrInternal}

NilErr == [t |-> "nil", kind |-> "", msg |-> "", code |-> "", causeT |-> "", causeKind |-> ""]

\* an error returned by a remote service client carrying the service's classification
RemoteError(k) == [t |-> "remote", kind |-> k, msg |-> "remote error", code |-> "", causeT |-> "", causeKind |-> ""]

\* an error without classification (transport failure, provider failure, ...)
PlainError(m) == [t |-> "plain", kind |-> "", msg |-> m, code |-> "", causeT |-> "", causeKind |-> ""]

NewAPIError(k, m) == [t |-> "api", kind |-> k, msg |-> m, code |-> "", causeT |-> "", causeKind |-> ""]

NewAPIErrorCode(k, m, c) == [t |-> "api", kind |-> k, msg |-> m, code |-> c, causeT |-> "", causeKind |-> ""]

NewAPIErrorWrap(k, err, m) == [t |-> "api", kind |-> k, msg |-> m, code |-> "", causeT |-> err.t, causeKind |-> err.kind]

\* errors.Wrapf: a plain wrapper that keeps the wrapped error in its chain
Wrapf(err, m) == [t |-> "wrapped", kind |-> "", msg |-> m, code |-> "", causeT |-> err.t, causeKind |-> err.kind]

InvalidSecretName == "invalidSecretName"

\* what a configstore client call can fail with
RemoteErrs == {RemoteError(k) : k \in ErrorKinds} \cup {PlainError("connection failed")}

APIErrorFromRemoteError(err, m) ==
    IF err.t = "remote"
    THEN [t |-> "api", kind |-> err.kind, msg |-> m, code |-> "", causeT |-> err.t, causeKind |-> err.kind]
    ELSE [t |-> "api", kind |-> ErrInternal, msg |-> m, code |-> "", causeT |-> err.t, causeKind |-> err.kind]

\* the first APIError in the chain of err (errors.As): its kind, or "" when there is none
APIErrorKindOf(err) ==
    IF err.t = "api" THEN err.kind
    ELSE IF err.t = "wrapped" /\ err.causeT = "api" THEN err.causeKind
    ELSE ""

\* util.HTTPError: the status written for err; 0 when nothing is written by it
HTTPErrorStatus(err) ==
    IF err.t = "nil" THEN 0
    ELSE LET k == APIErrorKindOf(err) IN
         CASE k = ErrBadRequest -> 400
           [] k = ErrNotExist -> 404
           [] k = ErrForbidden -> 403
           [] k = ErrUnauthorized -> 401
           [] OTHER -> 500

StatusOK == 200


(***************************************************************************)
(* Data of the webhook pipeline.                                           *)
(***************************************************************************)
SeqsUpTo(S, n) == UNION {[1..k -> S] : k \in 0..n}

\* the projectid query parameter of the webhook URL: absent, empty or set
NoParam == "<absent>"
ProjectIDParams == {NoParam, "", "p1"}

\* url.Values.Get: the first value of the parameter, "" when it is absent
QueryGet(q) == IF q = NoParam THEN "" ELSE q

LinkedAccountIDs == {"la1", "la2"}
RemoteSourceIDs == {"rs1", "rs2"}

NilProject == [isNil |-> TRUE, ID |-> "", LinkedAccountID |-> "", SSHPrivateKey |-> "",
               WebhookSecret |-> "", SkipSSHHostKeyCheck |-> FALSE]

\* the projects the configstore can answer GetProject(ref) with
Projects(ref) == {[isNil |-> FALSE, ID |-> ref, LinkedAccountID |-> l, SSHPrivateKey |-> "project-ssh-private-key",
                   WebhookSecret |-> "project-webhook-secret", SkipSSHHostKeyCheck |-> s] :
                  l \in LinkedAccountIDs, s \in BOOLEAN}

NilUser == [isNil |-> TRUE, ID |-> "", Name |-> ""]
Users == {[isNil |-> FALSE, ID |-> "u1", Name |-> "alice"]}

NilLinkedAccount == [isNil |-> TRUE, ID |-> "", RemoteSourceID |-> ""]
LinkedAccounts == {[isNil |-> FALSE, ID |-> l, RemoteSourceID |-> s] : l \in LinkedAccountIDs, s \in RemoteSourceIDs}

NilRemoteSource == [isNil |-> TRUE, ID |-> "", SSHHostKey |-> "", SkipSSHHostKeyCheck |-> FALSE]
RemoteSources(ref) == {[isNil |-> FALSE, ID |-> ref, SSHHostKey |-> "remotesource-ssh-host-key",
                        SkipSSHHostKeyCheck |-> s] : s \in BOOLEAN}

NilGitSource == [isNil |-> TRUE, RemoteSourceID |-> "", UserName |-> "", LinkedAccountID |-> ""]

WebhookEvents == {"push", "tag", "pull_request"}

NilWebhookData == [isNil |-> TRUE, Event |-> "", SSHURL |-> "", RepoPath |-> "", CommitSHA |-> "",
                   Message |-> "", Branch |-> "", Tag |-> "", PullRequestID |-> "", PRFromSameRepo |-> FALSE,
                   Ref |-> "", CommitLink |-> "", BranchLink |-> "", TagLink |-> "",
                   PullRequestLink |-> "", CompareLink |-> ""]

\* the events a provider parser can produce
WebhookDatas == {[isNil |-> FALSE, Event |-> e, SSHURL |-> u, RepoPath |-> "org/repo", CommitSHA |-> "c0ffee",
                  Message |-> "msg",
                  Branch |-> (IF e = "push" THEN "main" ELSE ""),
                  Tag |-> (IF e = "tag" THEN "v1" ELSE ""),
                  PullRequestID |-> (IF e = "pull_request" THEN "7" ELSE ""),
                  PRFromSameRepo |-> (e = "pull_request"),
                  Ref |-> (IF e = "push" THEN "refs/heads/main" ELSE IF e = "tag" THEN "refs/tags/v1" ELSE "refs/pull/7/head"),
                  CommitLink |-> "commit-link", BranchLink |-> "branch-link", TagLink |-> "tag-link",
                  PullRequestLink |-> "pr-link", CompareLink |-> "compare-link"] :
                 e \in WebhookEvents, u \in {"ssh://git@host/org/repo.git", "ssh://git@mirror/org/repo.git"}}

RunTypeProject == "project"
RunCreationTriggerTypeWebhook == "webhook"

\* common.WebHookEventToRunRefType
WebHookEventToRunRefType(e) ==
    CASE e = "push" -> "branch"
      [] e = "tag" -> "tag"
      [] e = "pull_request" -> "pullRequest"
      [] OTHER -> ""


\* variant: the two SSH keys change places
NewCreateRunRequest_KeysSwapped(project, gitSource, webhookData, sshPrivKey, sshHostKey, skipSSHHostKeyCheck, cloneURL) ==
    [RunType |-> RunTypeProject,
     RefType |-> WebHookEventToRunRefType(webhookData.Event),
     RunCreationTrigger |-> RunCreationTriggerTypeWebhook,
     Project |-> project,
     User |-> NilUser,
     RepoPath |-> webhookData.RepoPath,
     GitSource |-> gitSource,
     CommitSHA |-> webhookData.CommitSHA,
     Message |-> webhookData.Message,
     Branch |-> webhookData.Branch,
     Tag |-> webhookData.Tag,
     PullRequestID |-> webhookData.PullRequestID,
     PRFromSameRepo |-> webhookData.PRFromSameRepo,
     Ref |-> webhookData.Ref,
     SSHPrivKey |-> sshHostKey,
     SSHHostKey |-> sshPrivKey,
     SkipSSHHostKeyCheck |-> skipSSHHostKeyCheck,
     CloneURL |-> cloneURL,
     CommitLink |-> webhookData.CommitLink,
     BranchLink |-> webhookData.BranchLink,
     TagLink |-> webhookData.TagLink,
     PullRequestLink |-> webhookData.PullRequestLink,
     CompareLink |-> webhookData.CompareLink]

\* the request handed to the run creation by the webhook pipeline
NewCreateRunRequest(project, gitSource, webhookData, sshPrivKey, sshHostKey, skipSSHHostKeyCheck, cloneURL) ==
    [RunType |-> RunTypeProject,
     RefType |-> WebHookEventToRunRefType(webhookData.Event),
     RunCreationTrigger |-> RunCreationTriggerTypeWebhook,
     Project |-> project,
     User |-> NilUser,
     RepoPath |-> webhookData.RepoPath,
     GitSource |-> gitSource,
     CommitSHA |-> webhookData.CommitSHA,
     Message |-> webhookData.Message,
     Branch |-> webhookData.Branch,
     Tag |-> webhookData.Tag,
     PullRequestID |-> webhookData.PullRequestID,
     PRFromSameRepo |-> webhookData.PRFromSameRepo,
     Ref |-> webhookData.Ref,
     SSHPrivKey |-> sshPrivKey,
     SSHHostKey |-> sshHostKey,
     SkipSSHHostKeyCheck |-> skipSSHHostKeyCheck,
     CloneURL |-> cloneURL,
     CommitLink |-> webhookData.CommitLink,
     BranchLink |-> webhookData.BranchLink,
     TagLink |-> webhookData.TagLink,
     PullRequestLink |-> webhookData.PullRequestLink,
     CompareLink |-> webhookData.CompareLink]

\* variant: the scan takes the first linked account without comparing ids
FindLinkedAccount_First(linkedAccounts, id) ==
    IF Len(linkedAccounts) > 0 THEN linkedAccounts[1] ELSE NilLinkedAccount

\* the first linked account with the given id, nil when there is none
FindLinkedAccount(linkedAccounts, id) ==
    IF \E i \in 1..Len(linkedAccounts) : linkedAccounts[i].ID = id
    THEN linkedAccounts[CHOOSE i \in 1..Len(linkedAccounts) :
                            /\ linkedAccounts[i].ID = id
                            /\ \A j \in 1..(i - 1) : linkedAccounts[j].ID # id]
    ELSE NilLinkedAccount

\* variant: the project flag replaces the remote source flag
EffectiveSkipSSHHostKeyCheck_ProjectOnly(rsSkip, projectSkip) == projectSkip

\* use remotesource skipSSHHostKeyCheck config and override with project config if set to true there
EffectiveSkipSSHHostKeyCheck(rsSkip, projectSkip) ==
    IF projectSkip THEN projectSkip ELSE rsSkip

\* what the provider client construction, the parser and the run creation can fail with
GitSourceErrs == {PlainError("unknown remote source type")}
ParseWebhookErrs == {PlainError("signature mismatch"), PlainError("malformed payload")}
CreateRunsErrs == {PlainError("run creation failed"), NewAPIError(ErrBadRequest, "invalid run config")}

\* the decisions and the errors of do
\* variant: the projectid check only looks for a parameter that was given
MissingProjectID_NeverMissing(projectID) == FALSE

MissingProjectID(projectID) == projectID = ""

ErrMissingProjectID == NewAPIError(ErrBadRequest, "bad webhook url. Missing projectid")

ErrGetProject(err) == APIErrorFromRemoteError(err, "failed to get project")

ErrGetUserByLinkedAccount(err) == APIErrorFromRemoteError(err, "failed to get user by linked account")

ErrGetUserLinkedAccounts(err) == APIErrorFromRemoteError(err, "failed to get user linked accounts")

ErrLinkedAccountMissing == NewAPIError(ErrInternal, "linked account for user doesn't exist")

ErrGetRemoteSource(err) == APIErrorFromRemoteError(err, "failed to get remote source")

ErrGetGitSource(err) == NewAPIErrorWrap(ErrInternal, err, "failed to create gitea client")

\* variant: a parser failure reported as an internal error
ErrParseWebhook_Internal(err) == NewAPIErrorWrap(ErrInternal, err, "failed to parse webhook")

ErrParseWebhook(err) == NewAPIErrorWrap(ErrBadRequest, err, "failed to parse webhook")

\* variant: a nil event is not skipped
SkipWebhook_Never(webhookData) == FALSE

SkipWebhook(webhookData) == webhookData.isNil

\* variant: the run creation error is returned as it is
ErrCreateRuns_Unwrapped(err) == err

ErrCreateRuns(err) == NewAPIErrorWrap(ErrInternal, err, "failed to create run")

(***************************************************************************)
(* State.                                                                  *)
(***************************************************************************)
VARIABLES
    pc,          \* pc[r]: where request r stands
    inp,         \* inp[r]: the operation and the inputs of request r
    loc,         \* loc[r]: the local variables of the handler of request r
    calls,       \* calls[r]: the collaborator calls made for request r, in order
    bodyClosed,  \* bodyClosed[r]: the body of the HTTP request was closed
    ret,         \* ret[r]: the error returned by the handler
    retval,      \* retval[r]: the secrets returned by the handler
    resp         \* resp[r]: the HTTP response written for request r

vars == <<pc, inp, loc, calls, bodyClosed, ret, retval, resp>>

NoInp == [op |-> "", projectid |-> "", ParentType |-> "", ParentRef |-> "", Name |-> <<>>,
          SecretName |-> <<>>, Type |-> "", Tree |-> FALSE, RemoveOverridden |-> FALSE]

NoLoc == [projectID |-> "", project |-> NilProject, user |-> NilUser, linkedAccounts |-> <<>>,
          la |-> NilLinkedAccount, rs |-> NilRemoteSource, gitSource |-> NilGitSource,
          sshPrivKey |-> "", sshHostKey |-> "", skipSSHHostKeyCheck |-> FALSE,
          webhookData |-> NilWebhookData, deferred |-> FALSE, isVariableOwner |-> FALSE]

NoResp == [status |-> 0, body |-> ""]

Init ==
    /\ pc = [r \in Reqs |-> "idle"]
    /\ inp = [r \in Reqs |-> NoInp]
    /\ loc = [r \in Reqs |-> NoLoc]
    /\ calls = [r \in Reqs |-> <<>>]
    /\ bodyClosed = [r \in Reqs |-> FALSE]
    /\ ret = [r \in Reqs |-> NilErr]
    /\ retval = [r \in Reqs |-> <<>>]
    /\ resp = [r \in Reqs |-> NoResp]

\* the handler of request r goes on to its next collaborator call
Continue(r, next) ==
    /\ pc' = [pc EXCEPT ![r] = next]
    /\ UNCHANGED <<bodyClosed, ret, retval>>

\* variant: the error of do is kept in a field of the handler, which all requests share
DoReturn_SharedErr(r, err, deferred) ==
    /\ pc' = [pc EXCEPT ![r] = "ServeHTTP"]
    /\ ret' = [q \in Reqs |-> err]
    /\ bodyClosed' = [bodyClosed EXCEPT ![r] = @ \/ deferred]
    /\ UNCHANGED retval

\* do returns err; the deferred r.Body.Close() runs if it was registered
DoReturn(r, err, deferred) ==
    /\ pc' = [pc EXCEPT ![r] = "ServeHTTP"]
    /\ ret' = [ret EXCEPT ![r] = err]
    /\ bodyClosed' = [bodyClosed EXCEPT ![r] = @ \/ deferred]
    /\ UNCHANGED retval

\* a collaborator call of request r, logged with its arguments and its answer
Call(r, c) == calls' = [calls EXCEPT ![r] = Append(@, c)]

(***************************************************************************)
(* The webhook pipeline: webhooksHandler.ServeHTTP and do.                 *)
(***************************************************************************)
\* a webhook delivery arrives and ServeHTTP calls do
WebhookArrive(r) ==
    /\ pc[r] = "idle"
    /\ \E q \in ProjectIDParams :
          inp' = [inp EXCEPT ![r] = [NoInp EXCEPT !.op = "webhook", !.projectid = q]]
    /\ pc' = [pc EXCEPT ![r] = "do"]
    /\ UNCHANGED <<loc, calls, bodyClosed, ret, retval, resp>>

\* do, up to the registration of the deferred close
DoProjectID(r) ==
    /\ pc[r] = "do"
    /\ LET projectID == QueryGet(inp[r].projectid) IN
          IF MissingProjectID(projectID)
          THEN /\ DoReturn(r, ErrMissingProjectID, loc[r].deferred)
               /\ loc' = [loc EXCEPT ![r].projectID = projectID]
          ELSE /\ loc' = [loc EXCEPT ![r].projectID = projectID, ![r].deferred = TRUE]
               /\ Continue(r, "GetProject")
    /\ UNCHANGED <<inp, calls, resp>>

DoGetProject(r) ==
    /\ pc[r] = "GetProject"
    /\ \/ \E err \in RemoteErrs :
             /\ Call(r, [op |-> "GetProject", ref |-> loc[r].projectID, err |-> err, res |-> NilProject])
             /\ DoReturn(r, ErrGetProject(err), loc[r].deferred)
             /\ UNCHANGED loc
       \/ \E project \in Projects(loc[r].projectID) :
             /\ Call(r, [op |-> "GetProject", ref |-> loc[r].projectID, err |-> NilErr, res |-> project])
             /\ loc' = [loc EXCEPT ![r].project = project]
             /\ Continue(r, "GetUserByLinkedAccount")
    /\ UNCHANGED <<inp, resp>>

DoGetUserByLinkedAccount(r) ==
    /\ pc[r] = "GetUserByLinkedAccount"
    /\ LET ref == loc[r].project.LinkedAccountID IN
       \/ \E err \in RemoteErrs :
             /\ Call(r, [op |-> "GetUserByLinkedAccount", ref |-> ref, err |-> err, res |-> NilUser])
             /\ DoReturn(r, ErrGetUserByLinkedAccount(err), loc[r].deferred)
             /\ UNCHANGED loc
       \/ \E user \in Users :
             /\ Call(r, [op |-> "GetUserByLinkedAccount", ref |-> ref, err |-> NilErr, res |-> user])
             /\ loc' = [loc EXCEPT ![r].user = user]
             /\ Continue(r, "GetUserLinkedAccounts")
    /\ UNCHANGED <<inp, resp>>

\* the linked accounts lookup, the scan for the project's one and the nil check
DoGetUserLinkedAccounts(r) ==
    /\ pc[r] = "GetUserLinkedAccounts"
    /\ LET ref == loc[r].user.ID IN
       \/ \E err \in RemoteErrs :
             /\ Call(r, [op |-> "GetUserLinkedAccounts", ref |-> ref, err |-> err, res |-> <<>>])
             /\ DoReturn(r, ErrGetUserLinkedAccounts(err), loc[r].deferred)
             /\ UNCHANGED loc
       \/ \E linkedAccounts \in SeqsUpTo(LinkedAccounts, MaxLinkedAccounts) :
             LET la == FindLinkedAccount(linkedAccounts, loc[r].project.LinkedAccountID) IN
                /\ Call(r, [op |-> "GetUserLinkedAccounts", ref |-> ref, err |-> NilErr, res |-> linkedAccounts])
                /\ loc' = [loc EXCEPT ![r].linkedAccounts = linkedAccounts, ![r].la = la]
                /\ IF la.isNil
                   THEN DoReturn(r, ErrLinkedAccountMissing, loc[r].deferred)
                   ELSE Continue(r, "GetRemoteSource")
    /\ UNCHANGED <<inp, resp>>

DoGetRemoteSource(r) ==
    /\ pc[r] = "GetRemoteSource"
    /\ LET ref == loc[r].la.RemoteSourceID IN
       \/ \E err \in RemoteErrs :
             /\ Call(r, [op |-> "GetRemoteSource", ref |-> ref, err |-> err, res |-> NilRemoteSource])
             /\ DoReturn(r, ErrGetRemoteSource(err), loc[r].deferred)
             /\ UNCHANGED loc
       \/ \E rs \in RemoteSources(ref) :
             /\ Call(r, [op |-> "GetRemoteSource", ref |-> ref, err |-> NilErr, res |-> rs])
             /\ loc' = [loc EXCEPT ![r].rs = rs]
             /\ Continue(r, "GetGitSource")
    /\ UNCHANGED <<inp, resp>>

\* the provider client construction and the SSH host key policy
DoGetGitSource(r) ==
    /\ pc[r] = "GetGitSource"
    /\ LET gitSource == [isNil |-> FALSE, RemoteSourceID |-> loc[r].rs.ID,
                         UserName |-> loc[r].user.Name, LinkedAccountID |-> loc[r].la.ID]
       IN
       \/ \E err \in GitSourceErrs :
             /\ Call(r, [op |-> "GetGitSource", rs |-> loc[r].rs, userName |-> loc[r].user.Name,
                         la |-> loc[r].la, err |-> err, res |-> NilGitSource])
             /\ DoReturn(r, ErrGetGitSource(err), loc[r].deferred)
             /\ UNCHANGED loc
       \/ /\ Call(r, [op |-> "GetGitSource", rs |-> loc[r].rs, userName |-> loc[r].user.Name,
                      la |-> loc[r].la, err |-> NilErr, res |-> gitSource])
          /\ loc' = [loc EXCEPT
                       ![r].gitSource = gitSource,
                       ![r].sshPrivKey = loc[r].project.SSHPrivateKey,
                       ![r].sshHostKey = loc[r].rs.SSHHostKey,
                       ![r].skipSSHHostKeyCheck =
                           EffectiveSkipSSHHostKeyCheck(loc[r].rs.SkipSSHHostKeyCheck,
                                                        loc[r].project.SkipSSHHostKeyCheck)]
          /\ Continue(r, "ParseWebhook")
    /\ UNCHANGED <<inp, resp>>

\* the provider parser and the skip of a nil event
DoParseWebhook(r) ==
    /\ pc[r] = "ParseWebhook"
    /\ LET secret == loc[r].project.WebhookSecret IN
       \/ \E err \in ParseWebhookErrs :
             /\ Call(r, [op |-> "ParseWebhook", secret |-> secret, err |-> err, res |-> NilWebhookData])
             /\ DoReturn(r, ErrParseWebhook(err), loc[r].deferred)
             /\ UNCHANGED loc
       \/ \E webhookData \in WebhookDatas \cup {NilWebhookData} :
             /\ Call(r, [op |-> "ParseWebhook", secret |-> secret, err |-> NilErr, res |-> webhookData])
             /\ loc' = [loc EXCEPT ![r].webhookData = webhookData]
             /\ IF SkipWebhook(webhookData)
                THEN DoReturn(r, NilErr, loc[r].deferred)
                ELSE Continue(r, "CreateRuns")
    /\ UNCHANGED <<inp, resp>>

\* the run creation request is built and handed to the run creation
DoCreateRuns(r) ==
    /\ pc[r] = "CreateRuns"
    /\ LET cloneURL == loc[r].webhookData.SSHURL
           req == NewCreateRunRequest(loc[r].project, loc[r].gitSource, loc[r].webhookData,
                                      loc[r].sshPrivKey, loc[r].sshHostKey,
                                      loc[r].skipSSHHostKeyCheck, cloneURL)
       IN
       \/ \E err \in CreateRunsErrs :
             /\ Call(r, [op |-> "CreateRuns", req |-> req, err |-> err])
             /\ DoReturn(r, ErrCreateRuns(err), loc[r].deferred)
       \/ /\ Call(r, [op |-> "CreateRuns", req |-> req, err |-> NilErr])
          /\ DoReturn(r, NilErr, loc[r].deferred)
    /\ UNCHANGED <<inp, loc, resp>>

\* ServeHTTP after do returned: the error response, or the implicit empty 200
ServeHTTP(r) ==
    /\ pc[r] = "ServeHTTP"
    /\ resp' = [resp EXCEPT ![r] =
                   IF ret[r].t = "nil"
                   THEN [status |-> StatusOK, body |-> ""]
                   ELSE [status |-> HTTPErrorStatus(ret[r]), body |-> ret[r].msg]]
    /\ pc' = [pc EXCEPT ![r] = "done"]
    /\ UNCHANGED <<inp, loc, calls, bodyClosed, ret, retval>>


(***************************************************************************)
(* Data of the secret operations.                                          *)
(***************************************************************************)
ObjectKindProjectGroup == "projectgroup"
ObjectKindProject == "project"

\* the parent kinds a caller can pass: the two secret scopes and another object kind
ObjectKinds == {ObjectKindProjectGroup, ObjectKindProject, "org"}

ParentRefs == {"org1/group1", "org1/group1/project1"}

\* names are strings over a letter, a digit, the separator and a blank
Letters == {"a"}
Digits == {"1"}
NameChars == Letters \cup Digits \cup {"-", " "}
Names == SeqsUpTo(NameChars, MaxNameLen)

\* the current names an update addresses a secret by
SecretNames == {<<"a", "1">>, <<" ">>}

SecretTypes == {"internal", "external"}

SecretData == "k=v"

\* util.ValidateName, the name-syntax rule: a letter first, then letters and digits
\* with single separators between them
ValidateName(s) ==
    /\ Len(s) > 0
    /\ s[1] \in Letters
    /\ \A i \in 1..Len(s) : s[i] \in Letters \cup Digits \cup {"-"}
    /\ s[Len(s)] # "-"
    /\ \A i \in 1..(Len(s) - 1) : ~(s[i] = "-" /\ s[i + 1] = "-")

\* what the ownership resolution can fail with
OwnerErrs == {PlainError("context canceled"),
              NewAPIError(ErrNotExist, "parent doesn't exist"),
              NewAPIError(ErrForbidden, "parent not readable")}

CreateUpdateSecretRequest(name, type, data) == [Name |-> name, Type |-> type, Data |-> data]

\* the secret the store answers a create or an update with
StoredSecret(parentRef, creq) ==
    [ID |-> "secret-id", Name |-> creq.Name, Type |-> creq.Type, ParentPath |-> parentRef]

\* a nil pointer dereference: the handler panics instead of returning
PanicNilDeref == [t |-> "panic", kind |-> "", msg |-> "nil pointer dereference", code |-> "",
                  causeT |-> "", causeKind |-> ""]

StoreMutationOps == {"CreateProjectGroupSecret", "CreateProjectSecret",
                     "UpdateProjectGroupSecret", "UpdateProjectSecret",
                     "DeleteProjectGroupSecret", "DeleteProjectSecret"}

\* the decisions and the errors of the secret operations
\* variant: the answer of the ownership guard is ignored
NotVariableOwner_Ignored(isVariableOwner) == FALSE

NotVariableOwner(isVariableOwner) == ~isVariableOwner

\* variant: a failed ownership resolution reported like a 'not owner' answer
ErrOwnership_Forbidden(err) == NewAPIError(ErrForbidden, "user not authorized")

ErrOwnership(err) == Wrapf(err, "failed to determine ownership")

ErrNotAuthorized == NewAPIError(ErrForbidden, "user not authorized")

\* variant: only the empty name is rejected
InvalidName_OnlyEmpty(name) == name = <<>>

InvalidName(name) == ~ValidateName(name)

ErrInvalidSecretName == NewAPIErrorCode(ErrBadRequest, "invalid secret name", InvalidSecretName)

ErrCreateSecret(err) == APIErrorFromRemoteError(err, "failed to create secret")

ErrUpdateSecret(err) == APIErrorFromRemoteError(err, "failed to update secret")

\* variant: the store's failure is wrapped as an internal error
ErrDeleteSecret_Internal(err) == NewAPIErrorWrap(ErrInternal, err, "failed to delete secret")

ErrDeleteSecret(err) == APIErrorFromRemoteError(err, "failed to delete secret")

\* the ownership guard is asked about the parent of request r and answers (owner, err)
IsAuthUserVariableOwner(r, owner, err) ==
    Call(r, [op |-> "IsAuthUserVariableOwner", parentType |-> inp[r].ParentType,
             ref |-> inp[r].ParentRef, err |-> err, res |-> owner])

\* the secret operation of request r returns (or panics with) err and secrets val
SecretReturn(r, err, val) ==
    /\ pc' = [pc EXCEPT ![r] = "done"]
    /\ ret' = [ret EXCEPT ![r] = err]
    /\ retval' = [retval EXCEPT ![r] = val]
    /\ UNCHANGED bodyClosed

(***************************************************************************)
(* ActionHandler.CreateSecret                                              *)
(***************************************************************************)
CreateSecretCall(r) ==
    /\ pc[r] = "idle"
    /\ \E pt \in ObjectKinds, pr \in ParentRefs, n \in Names, t \in SecretTypes :
          inp' = [inp EXCEPT ![r] = [NoInp EXCEPT !.op = "CreateSecret", !.ParentType = pt,
                                                  !.ParentRef = pr, !.Name = n, !.Type = t]]
    /\ pc' = [pc EXCEPT ![r] = "CreateSecret"]
    /\ UNCHANGED <<loc, calls, bodyClosed, ret, retval, resp>>

\* the ownership guard and the name validation
CreateSecretOwner(r) ==
    /\ pc[r] = "CreateSecret"
    /\ \/ \E err \in OwnerErrs :
             /\ IsAuthUserVariableOwner(r, FALSE, err)
             /\ SecretReturn(r, ErrOwnership(err), <<>>)
             /\ UNCHANGED loc
       \/ \E isVariableOwner \in BOOLEAN :
             /\ IsAuthUserVariableOwner(r, isVariableOwner, NilErr)
             /\ loc' = [loc EXCEPT ![r].isVariableOwner = isVariableOwner]
             /\ IF NotVariableOwner(isVariableOwner)
                THEN SecretReturn(r, ErrNotAuthorized, <<>>)
                ELSE IF InvalidName(inp[r].Name)
                THEN SecretReturn(r, ErrInvalidSecretName, <<>>)
                ELSE Continue(r, "CreateSecretStore")
    /\ UNCHANGED <<inp, resp>>

\* the store call by parent kind and the use of its answer
CreateSecretStore(r) ==
    /\ pc[r] = "CreateSecretStore"
    /\ LET creq == CreateUpdateSecretRequest(inp[r].Name, inp[r].Type, SecretData)
           rs == StoredSecret(inp[r].ParentRef, creq)
       IN
          CASE inp[r].ParentType = ObjectKindProjectGroup ->
                  \E err \in RemoteErrs \cup {NilErr} :
                     /\ Call(r, [op |-> "CreateProjectGroupSecret", ref |-> inp[r].ParentRef,
                                 creq |-> creq, err |-> err])
                     /\ IF err.t # "nil"
                        THEN SecretReturn(r, ErrCreateSecret(err), <<>>)
                        ELSE SecretReturn(r, NilErr, <<rs>>)
            [] inp[r].ParentType = ObjectKindProject ->
                  \E err \in RemoteErrs \cup {NilErr} :
                     /\ Call(r, [op |-> "CreateProjectSecret", ref |-> inp[r].ParentRef,
                                 creq |-> creq, err |-> err])
                     /\ IF err.t # "nil"
                        THEN SecretReturn(r, ErrCreateSecret(err), <<>>)
                        ELSE SecretReturn(r, NilErr, <<rs>>)
            [] OTHER ->
                  \* no case of the switch: err and rs stay nil, rs.Name dereferences nil
                  /\ SecretReturn(r, PanicNilDeref, <<>>)
                  /\ UNCHANGED calls
    /\ UNCHANGED <<inp, loc, resp>>

(***************************************************************************)
(* ActionHandler.UpdateSecret                                              *)
(***************************************************************************)
UpdateSecretCall(r) ==
    /\ pc[r] = "idle"
    /\ \E pt \in ObjectKinds, pr \in ParentRefs, sn \in SecretNames, n \in Names, t \in SecretTypes :
          inp' = [inp EXCEPT ![r] = [NoInp EXCEPT !.op = "UpdateSecret", !.ParentType = pt, !.ParentRef = pr,
                                                  !.SecretName = sn, !.Name = n, !.Type = t]]
    /\ pc' = [pc EXCEPT ![r] = "UpdateSecret"]
    /\ UNCHANGED <<loc, calls, bodyClosed, ret, retval, resp>>

\* variant: the name is checked before the ownership guard is asked
UpdateSecretOwner_ValidatesFirst(r) ==
    /\ pc[r] = "UpdateSecret"
    /\ IF InvalidName(inp[r].Name)
       THEN /\ SecretReturn(r, ErrInvalidSecretName, <<>>)
            /\ UNCHANGED <<calls, loc>>
       ELSE \/ \E err \in OwnerErrs :
                  /\ IsAuthUserVariableOwner(r, FALSE, err)
                  /\ SecretReturn(r, ErrOwnership(err), <<>>)
                  /\ UNCHANGED loc
            \/ \E isVariableOwner \in BOOLEAN :
                  /\ IsAuthUserVariableOwner(r, isVariableOwner, NilErr)
                  /\ loc' = [loc EXCEPT ![r].isVariableOwner = isVariableOwner]
                  /\ IF NotVariableOwner(isVariableOwner)
                     THEN SecretReturn(r, ErrNotAuthorized, <<>>)
                     ELSE Continue(r, "UpdateSecretStore")
    /\ UNCHANGED <<inp, resp>>

UpdateSecretOwner(r) ==
    /\ pc[r] = "UpdateSecret"
    /\ \/ \E err \in OwnerErrs :
             /\ IsAuthUserVariableOwner(r, FALSE, err)
             /\ SecretReturn(r, ErrOwnership(err), <<>>)
             /\ UNCHANGED loc
       \/ \E isVariableOwner \in BOOLEAN :
             /\ IsAuthUserVariableOwner(r, isVariableOwner, NilErr)
             /\ loc' = [loc EXCEPT ![r].isVariableOwner = isVariableOwner]
             /\ IF NotVariableOwner(isVariableOwner)
                THEN SecretReturn(r, ErrNotAuthorized, <<>>)
                ELSE IF InvalidName(inp[r].Name)
                THEN SecretReturn(r, ErrInvalidSecretName, <<>>)
                ELSE Continue(r, "UpdateSecretStore")
    /\ UNCHANGED <<inp, resp>>

UpdateSecretStore(r) ==
    /\ pc[r] = "UpdateSecretStore"
    /\ LET creq == CreateUpdateSecretRequest(inp[r].Name, inp[r].Type, SecretData)
           rs == StoredSecret(inp[r].ParentRef, creq)
       IN
          CASE inp[r].ParentType = ObjectKindProjectGroup ->
                  \E err \in RemoteErrs \cup {NilErr} :
                     /\ Call(r, [op |-> "UpdateProjectGroupSecret", ref |-> inp[r].ParentRef,
                                 name |-> inp[r].SecretName, creq |-> creq, err |-> err])
                     /\ IF err.t # "nil"
                        THEN SecretReturn(r, ErrUpdateSecret(err), <<>>)
                        ELSE SecretReturn(r, NilErr, <<rs>>)
            [] inp[r].ParentType = ObjectKindProject ->
                  \E err \in RemoteErrs \cup {NilErr} :
                     /\ Call(r, [op |-> "UpdateProjectSecret", ref |-> inp[r].ParentRef,
                                 name |-> inp[r].SecretName, creq |-> creq, err |-> err])
                     /\ IF err.t # "nil"
                        THEN SecretReturn(r, ErrUpdateSecret(err), <<>>)
                        ELSE SecretReturn(r, NilErr, <<rs>>)
            [] OTHER ->
                  \* no case of the switch: err and rs stay nil, rs.Name dereferences nil
                  /\ SecretReturn(r, PanicNilDeref, <<>>)
                  /\ UNCHANGED calls
    /\ UNCHANGED <<inp, loc, resp>>

(***************************************************************************)
(* ActionHandler.DeleteSecret                                              *)
(***************************************************************************)
DeleteSecretCall(r) ==
    /\ pc[r] = "idle"
    /\ \E pt \in ObjectKinds, pr \in ParentRefs, n \in Names :
          inp' = [inp EXCEPT ![r] = [NoInp EXCEPT !.op = "DeleteSecret", !.ParentType = pt,
                                                  !.ParentRef = pr, !.Name = n]]
    /\ pc' = [pc EXCEPT ![r] = "DeleteSecret"]
    /\ UNCHANGED <<loc, calls, bodyClosed, ret, retval, resp>>

\* variant: DeleteSecret checks the name as CreateSecret and UpdateSecret do
DeleteSecretOwner_ValidatesName(r) ==
    /\ pc[r] = "DeleteSecret"
    /\ \/ \E err \in OwnerErrs :
             /\ IsAuthUserVariableOwner(r, FALSE, err)
             /\ SecretReturn(r, ErrOwnership(err), <<>>)
             /\ UNCHANGED loc
       \/ \E isVariableOwner \in BOOLEAN :
             /\ IsAuthUserVariableOwner(r, isVariableOwner, NilErr)
             /\ loc' = [loc EXCEPT ![r].isVariableOwner = isVariableOwner]
             /\ IF NotVariableOwner(isVariableOwner)
                THEN SecretReturn(r, ErrNotAuthorized, <<>>)
                ELSE IF InvalidName(inp[r].Name)
                     THEN SecretReturn(r, ErrInvalidSecretName, <<>>)
                     ELSE Continue(r, "DeleteSecretStore")
    /\ UNCHANGED <<inp, resp>>

DeleteSecretOwner(r) ==
    /\ pc[r] = "DeleteSecret"
    /\ \/ \E err \in OwnerErrs :
             /\ IsAuthUserVariableOwner(r, FALSE, err)
             /\ SecretReturn(r, ErrOwnership(err), <<>>)
             /\ UNCHANGED loc
       \/ \E isVariableOwner \in BOOLEAN :
             /\ IsAuthUserVariableOwner(r, isVariableOwner, NilErr)
             /\ loc' = [loc EXCEPT ![r].isVariableOwner = isVariableOwner]
             /\ IF NotVariableOwner(isVariableOwner)
                THEN SecretReturn(r, ErrNotAuthorized, <<>>)
                ELSE Continue(r, "DeleteSecretStore")
    /\ UNCHANGED <<inp, resp>>

\* variant: the two cases of the switch call each other's store operation
DeleteSecretStore_WrongKind(r) ==
    /\ pc[r] = "DeleteSecretStore"
    /\ CASE inp[r].ParentType = ObjectKindProjectGroup ->
               \E err \in RemoteErrs \cup {NilErr} :
                  /\ Call(r, [op |-> "DeleteProjectSecret", ref |-> inp[r].ParentRef,
                              name |-> inp[r].Name, err |-> err])
                  /\ IF err.t # "nil"
                     THEN SecretReturn(r, ErrDeleteSecret(err), <<>>)
                     ELSE SecretReturn(r, NilErr, <<>>)
         [] inp[r].ParentType = ObjectKindProject ->
               \E err \in RemoteErrs \cup {NilErr} :
                  /\ Call(r, [op |-> "DeleteProjectGroupSecret", ref |-> inp[r].ParentRef,
                              name |-> inp[r].Name, err |-> err])
                  /\ IF err.t # "nil"
                     THEN SecretReturn(r, ErrDeleteSecret(err), <<>>)
                     ELSE SecretReturn(r, NilErr, <<>>)
         [] OTHER ->
               /\ SecretReturn(r, NilErr, <<>>)
               /\ UNCHANGED calls
    /\ UNCHANGED <<inp, loc, resp>>

DeleteSecretStore(r) ==
    /\ pc[r] = "DeleteSecretStore"
    /\ CASE inp[r].ParentType = ObjectKindProjectGroup ->
               \E err \in RemoteErrs \cup {NilErr} :
                  /\ Call(r, [op |-> "DeleteProjectGroupSecret", ref |-> inp[r].ParentRef,
                              name |-> inp[r].Name, err |-> err])
                  /\ IF err.t # "nil"
                     THEN SecretReturn(r, ErrDeleteSecret(err), <<>>)
                     ELSE SecretReturn(r, NilErr, <<>>)
         [] inp[r].ParentType = ObjectKindProject ->
               \E err \in RemoteErrs \cup {NilErr} :
                  /\ Call(r, [op |-> "DeleteProjectSecret", ref |-> inp[r].ParentRef,
                              name |-> inp[r].Name, err |-> err])
                  /\ IF err.t # "nil"
                     THEN SecretReturn(r, ErrDeleteSecret(err), <<>>)
                     ELSE SecretReturn(r, NilErr, <<>>)
         [] OTHER ->
               \* no case of the switch: err stays nil and the call reports success
               /\ SecretReturn(r, NilErr, <<>>)
               /\ UNCHANGED calls
    /\ UNCHANGED <<inp, loc, resp>>

(***************************************************************************)
(* ActionHandler.GetSecrets                                                *)
(***************************************************************************)
\* the secrets a store read can answer with: each has a name and the path of the
\* parent it is declared at; a name occurs at most once per parent
ListedSecretNames == {<<"a">>, <<"a", "1">>}

ListedSecrets == {[ID |-> "secret-id", Name |-> n, Type |-> "internal", ParentPath |-> p] :
                  n \in ListedSecretNames, p \in ParentRefs}

NoRepeat(seq) == \A i, j \in 1..Len(seq) : i # j => seq[i] # seq[j]

\* without the tree flag the store answers with the secrets of one parent only
SecretLists(tree) ==
    {l \in SeqsUpTo(ListedSecrets, MaxSecrets) :
        /\ NoRepeat(l)
        /\ ~tree => \A i, j \in 1..Len(l) : l[i].ParentPath = l[j].ParentPath}

\* the length of a parent path: the deeper the parent, the longer its path
PathLen(p) ==
    CASE p = "org1/group1" -> 11
      [] p = "org1/group1/project1" -> 20
      [] OTHER -> 0

\* the subsequence of seq at the positions of the set keep, from position i on
RECURSIVE SelectIdx(_, _, _)
SelectIdx(seq, keep, i) ==
    IF i > Len(seq) THEN <<>>
    ELSE (IF i \in keep THEN <<seq[i]>> ELSE <<>>) \o SelectIdx(seq, keep, i + 1)

\* common.FilterOverriddenSecrets: of the secrets with one name the one with the longest
\* parent path stays (the first of them, if several), in the order of the list
FilterOverriddenSecrets(secrets) ==
    LET Keep == {i \in 1..Len(secrets) :
                   \A j \in 1..Len(secrets) :
                      (j # i /\ secrets[j].Name = secrets[i].Name) =>
                         \/ PathLen(secrets[j].ParentPath) < PathLen(secrets[i].ParentPath)
                         \/ (PathLen(secrets[j].ParentPath) = PathLen(secrets[i].ParentPath) /\ i < j)}
    IN SelectIdx(secrets, Keep, 1)

ErrGetSecrets(err) == APIErrorFromRemoteError(err, "")

\* variant: the filter is never applied
RemoveOverridden_Never(removeOverridden) == FALSE

\* variant: the filter is always applied
RemoveOverridden_Always(removeOverridden) == TRUE

RemoveOverridden(removeOverridden) == removeOverridden

StoreReadOps == {"GetProjectGroupSecrets", "GetProjectSecrets"}

GetSecretsCall(r) ==
    /\ pc[r] = "idle"
    /\ \E pt \in ObjectKinds, pr \in ParentRefs, tree \in BOOLEAN, ro \in BOOLEAN :
          inp' = [inp EXCEPT ![r] = [NoInp EXCEPT !.op = "GetSecrets", !.ParentType = pt, !.ParentRef = pr,
                                                  !.Tree = tree, !.RemoveOverridden = ro]]
    /\ pc' = [pc EXCEPT ![r] = "GetSecrets"]
    /\ UNCHANGED <<loc, calls, bodyClosed, ret, retval, resp>>

\* the store read by parent kind and the shadowing filter
GetSecrets(r) ==
    /\ pc[r] = "GetSecrets"
    /\ CASE inp[r].ParentType = ObjectKindProjectGroup ->
               \/ \E err \in RemoteErrs :
                     /\ Call(r, [op |-> "GetProjectGroupSecrets", ref |-> inp[r].ParentRef,
                                 tree |-> inp[r].Tree, err |-> err, res |-> <<>>])
                     /\ SecretReturn(r, ErrGetSecrets(err), <<>>)
               \/ \E cssecrets \in SecretLists(inp[r].Tree) :
                     /\ Call(r, [op |-> "GetProjectGroupSecrets", ref |-> inp[r].ParentRef,
                                 tree |-> inp[r].Tree, err |-> NilErr, res |-> cssecrets])
                     /\ IF RemoveOverridden(inp[r].RemoveOverridden)
                        THEN SecretReturn(r, NilErr, FilterOverriddenSecrets(cssecrets))
                        ELSE SecretReturn(r, NilErr, cssecrets)
         [] inp[r].ParentType = ObjectKindProject ->
               \/ \E err \in RemoteErrs :
                     /\ Call(r, [op |-> "GetProjectSecrets", ref |-> inp[r].ParentRef,
                                 tree |-> inp[r].Tree, err |-> err, res |-> <<>>])
                     /\ SecretReturn(r, ErrGetSecrets(err), <<>>)
               \/ \E cssecrets \in SecretLists(inp[r].Tree) :
                     /\ Call(r, [op |-> "GetProjectSecrets", ref |-> inp[r].ParentRef,
                                 tree |-> inp[r].Tree, err |-> NilErr, res |-> cssecrets])
                     /\ IF RemoveOverridden(inp[r].RemoveOverridden)
                        THEN SecretReturn(r, NilErr, FilterOverriddenSecrets(cssecrets))
                        ELSE SecretReturn(r, NilErr, cssecrets)
         [] OTHER ->
               \* no case of the switch: cssecrets and err stay nil; the filter of no secrets
               \* is no secrets
               /\ SecretReturn(r, NilErr, <<>>)
               /\ UNCHANGED calls
    /\ UNCHANGED <<inp, loc, resp>>

(***************************************************************************)
(* The end of a request: its handler's frame and its response are gone.    *)
(***************************************************************************)
Finish(r) ==
    /\ pc[r] = "done"
    /\ pc' = [pc EXCEPT ![r] = "idle"]
    /\ inp' = [inp EXCEPT ![r] = NoInp]
    /\ loc' = [loc EXCEPT ![r] = NoLoc]
    /\ calls' = [calls EXCEPT ![r] = <<>>]
    /\ bodyClosed' = [bodyClosed EXCEPT ![r] = FALSE]
    /\ ret' = [ret EXCEPT ![r] = NilErr]
    /\ retval' = [retval EXCEPT ![r] = <<>>]
    /\ resp' = [resp EXCEPT ![r] = NoResp]

\* this specification takes the requests one at a time: a request is accepted
\* when no other is in flight
Serial(r) == \A q \in Reqs \ {r} : pc[q] = "idle"

Next ==
    \E r \in Reqs :
       \/ Serial(r) /\ WebhookArrive(r)
       \/ DoProjectID(r)
       \/ DoGetProject(r)
       \/ DoGetUserByLinkedAccount(r)
       \/ DoGetUserLinkedAccounts(r)
       \/ DoGetRemoteSource(r)
       \/ DoGetGitSource(r)
       \/ DoParseWebhook(r)
       \/ DoCreateRuns(r)
       \/ ServeHTTP(r)
       \/ Serial(r) /\ CreateSecretCall(r)
       \/ CreateSecretOwner(r)
       \/ CreateSecretStore(r)
       \/ Serial(r) /\ UpdateSecretCall(r)
       \/ UpdateSecretOwner(r)
       \/ UpdateSecretStore(r)
       \/ Serial(r) /\ DeleteSecretCall(r)
       \/ DeleteSecretOwner(r)
       \/ DeleteSecretStore(r)
       \/ Serial(r) /\ GetSecretsCall(r)
       \/ GetSecrets(r)
       \/ Finish(r)

Spec == Init /\ [][Next]_vars


(***************************************************************************)
(* What the call log of a request says.                                    *)
(***************************************************************************)
CallIdx(r, op) == {i \in 1..Len(calls[r]) : calls[r][i].op = op}

Called(r, op) == CallIdx(r, op) # {}

\* the collaborator's answer to the call of op (each is called at most once)
Answer(r, op) == calls[r][CHOOSE i \in CallIdx(r, op) : TRUE].res

\* op was called and the collaborator answered with an error
Failed(r, op) == \E i \in CallIdx(r, op) : calls[r][i].err.t # "nil"

\* op was called and the collaborator answered without error
Succeeded(r, op) == \E i \in CallIdx(r, op) : calls[r][i].err.t = "nil"

IsWebhook(r) == inp[r].op = "webhook"

SecretMutations == {"CreateSecret", "UpdateSecret", "DeleteSecret"}

IsSecretMutation(r) == inp[r].op \in SecretMutations

\* do has returned
DoReturned(r) == pc[r] \in {"ServeHTTP", "done"}

NoStoreMutation(r) == \A i \in 1..Len(calls[r]) : calls[r][i].op \notin StoreMutationOps

MissingParam(r) == inp[r].projectid \in {NoParam, ""}

\* the ownership guard answered 'not owner' / 'owner' / with an error
GuardSaidNotOwner(r) ==
    \E i \in CallIdx(r, "IsAuthUserVariableOwner") : calls[r][i].err.t = "nil" /\ ~calls[r][i].res

GuardSaidOwner(r) ==
    \E i \in CallIdx(r, "IsAuthUserVariableOwner") : calls[r][i].err.t = "nil" /\ calls[r][i].res

\* the parser answered nil without error
ParsedNil(r) == Succeeded(r, "ParseWebhook") /\ Answer(r, "ParseWebhook").isNil

\* the linked accounts were returned and none has the id the project refers to
LinkedAccountAbsent(r) ==
    /\ Succeeded(r, "GetUserLinkedAccounts")
    /\ \A k \in 1..Len(Answer(r, "GetUserLinkedAccounts")) :
          Answer(r, "GetUserLinkedAccounts")[k].ID # Answer(r, "GetProject").LinkedAccountID

LinkedAccountPresent(r) ==
    /\ Succeeded(r, "GetUserLinkedAccounts")
    /\ \E k \in 1..Len(Answer(r, "GetUserLinkedAccounts")) :
          Answer(r, "GetUserLinkedAccounts")[k].ID = Answer(r, "GetProject").LinkedAccountID

(***************************************************************************)
(* C1: in CreateSecret, UpdateSecret and DeleteSecret, for every parent    *)
(* kind and reference, when the ownership guard answers 'not owner' the    *)
(* call has failed with a Forbidden error and no store create, update or   *)
(* delete call is made for the request.                                    *)
(***************************************************************************)
C1_NonOwnerForbidden ==
    \A r \in Reqs :
       (IsSecretMutation(r) /\ GuardSaidNotOwner(r)) =>
          /\ pc[r] = "done"
          /\ ret[r].t = "api" /\ ret[r].kind = ErrForbidden
          /\ retval[r] = <<>>
          /\ NoStoreMutation(r)

C1_Witness ==
    \E r \in Reqs :
       /\ inp[r].op = "UpdateSecret" /\ GuardSaidNotOwner(r) /\ pc[r] = "done"
       /\ ValidateName(inp[r].Name)
       /\ ret[r].kind = ErrForbidden

(***************************************************************************)
(* C2: a webhook request whose projectid parameter is missing or empty     *)
(* fails with a BadRequest error and makes no collaborator call at all.    *)
(***************************************************************************)
C2_MissingProjectIDBadRequest ==
    \A r \in Reqs :
       (IsWebhook(r) /\ MissingParam(r)) =>
          /\ calls[r] = <<>>
          /\ pc[r] \in {"do", "ServeHTTP", "done"}
          /\ DoReturned(r) => (ret[r].t = "api" /\ ret[r].kind = ErrBadRequest)

C2_Witness ==
    \E r \in Reqs :
       /\ IsWebhook(r) /\ inp[r].projectid = NoParam /\ pc[r] = "done"
       /\ ret[r].kind = ErrBadRequest /\ calls[r] = <<>>

(***************************************************************************)
(* C3: when the provider parser returns no event and no error, the webhook *)
(* request ends without error, with the empty success response, and        *)
(* CreateRuns is never called for it.                                      *)
(***************************************************************************)
C3_NilEventSkipped ==
    \A r \in Reqs :
       (IsWebhook(r) /\ ParsedNil(r)) =>
          /\ DoReturned(r)
          /\ ret[r] = NilErr
          /\ ~Called(r, "CreateRuns")
          /\ pc[r] = "done" => resp[r] = [status |-> 200, body |-> ""]

C3_Witness ==
    \E r \in Reqs : IsWebhook(r) /\ ParsedNil(r) /\ pc[r] = "done" /\ resp[r].status = 200

(***************************************************************************)
(* C4: the SkipSSHHostKeyCheck of every run creation request is the        *)
(* disjunction of the remote source's flag and the project's flag, for all *)
(* four combinations of the two.                                           *)
(***************************************************************************)
C4_SkipIsDisjunction ==
    \A r \in Reqs :
       \A i \in CallIdx(r, "CreateRuns") :
          calls[r][i].req.SkipSSHHostKeyCheck =
             (Answer(r, "GetRemoteSource").SkipSSHHostKeyCheck \/ Answer(r, "GetProject").SkipSSHHostKeyCheck)

C4_Witness ==
    \E r \in Reqs :
       \E i \in CallIdx(r, "CreateRuns") :
          /\ Answer(r, "GetRemoteSource").SkipSSHHostKeyCheck
          /\ ~Answer(r, "GetProject").SkipSSHHostKeyCheck
          /\ calls[r][i].req.SkipSSHHostKeyCheck

(***************************************************************************)
(* C5: CreateSecret and UpdateSecret called by an owner with a name the    *)
(* name-syntax rule rejects fail with the invalid-secret-name error and    *)
(* make no store call, for either parent kind.                             *)
(***************************************************************************)
C5_InvalidNameRejected ==
    \A r \in Reqs :
       (inp[r].op \in {"CreateSecret", "UpdateSecret"} /\ GuardSaidOwner(r) /\ ~ValidateName(inp[r].Name)) =>
          /\ pc[r] = "done"
          /\ ret[r].t = "api" /\ ret[r].kind = ErrBadRequest /\ ret[r].code = InvalidSecretName
          /\ retval[r] = <<>>
          /\ Len(calls[r]) = 1

C5_Witness ==
    \E r \in Reqs :
       /\ inp[r].op = "CreateSecret" /\ GuardSaidOwner(r) /\ inp[r].Name = <<"a", " ">>
       /\ pc[r] = "done" /\ ret[r].code = InvalidSecretName

(***************************************************************************)
(* C6: the body of the webhook request is closed on every exit path of     *)
(* the pipeline, the missing projectid included.                           *)
(***************************************************************************)
C6_BodyClosedOnEveryExit ==
    \A r \in Reqs : (IsWebhook(r) /\ DoReturned(r)) => bodyClosed[r]

(***************************************************************************)
(* C7: when no linked account of the user has the id the project refers    *)
(* to, the webhook request fails with an Internal error and none of        *)
(* GetRemoteSource, the provider client construction, ParseWebhook and     *)
(* CreateRuns is called; when one has, the pipeline goes on with a linked  *)
(* account of the answer whose id is the project's reference.              *)
(***************************************************************************)
C7_LinkedAccountIntegrity ==
    \A r \in Reqs :
       IsWebhook(r) =>
          /\ LinkedAccountAbsent(r) =>
                /\ DoReturned(r)
                /\ ret[r].t = "api" /\ ret[r].kind = ErrInternal
                /\ \A op \in {"GetRemoteSource", "GetGitSource", "ParseWebhook", "CreateRuns"} : ~Called(r, op)
          /\ LinkedAccountPresent(r) =>
                /\ ~loc[r].la.isNil
                /\ loc[r].la.ID = Answer(r, "GetProject").LinkedAccountID
                /\ \E k \in 1..Len(Answer(r, "GetUserLinkedAccounts")) :
                      Answer(r, "GetUserLinkedAccounts")[k] = loc[r].la
                /\ pc[r] = "GetRemoteSource" \/ Called(r, "GetRemoteSource")
                /\ \A i \in CallIdx(r, "GetRemoteSource") : calls[r][i].ref = loc[r].la.RemoteSourceID
                /\ \A i \in CallIdx(r, "GetGitSource") : calls[r][i].la = loc[r].la

C7_Witness ==
    \E r \in Reqs :
       /\ IsWebhook(r) /\ LinkedAccountAbsent(r) /\ pc[r] = "done"
       /\ Len(Answer(r, "GetUserLinkedAccounts")) > 0
       /\ ret[r].kind = ErrInternal

(***************************************************************************)
(* C8: when the provider parser returns an error, the webhook request      *)
(* fails with a BadRequest error and CreateRuns is never called for it.    *)
(***************************************************************************)
C8_ParseErrorBadRequest ==
    \A r \in Reqs :
       (IsWebhook(r) /\ Failed(r, "ParseWebhook")) =>
          /\ DoReturned(r)
          /\ ret[r].t = "api" /\ ret[r].kind = ErrBadRequest
          /\ ~Called(r, "CreateRuns")

C8_Witness ==
    \E r \in Reqs :
       /\ IsWebhook(r) /\ Failed(r, "ParseWebhook") /\ pc[r] = "done"
       /\ ret[r].kind = ErrBadRequest /\ ret[r].causeT = "plain"


(***************************************************************************)
(* The outcomes of a webhook request, read from its call log.              *)
(***************************************************************************)
LookupOps == {"GetProject", "GetUserByLinkedAccount", "GetUserLinkedAccounts", "GetRemoteSource"}

RunCreated(r) == Succeeded(r, "CreateRuns")

LookupFailed(r) == \E op \in LookupOps : Failed(r, op)

\* the error the store answered the failed lookup with
LookupError(r) ==
    calls[r][CHOOSE i \in 1..Len(calls[r]) : calls[r][i].op \in LookupOps /\ calls[r][i].err.t # "nil"].err

\* the status that stands for the classification a store error carries
StatusOfClassification(err) ==
    IF err.t # "remote" THEN 500
    ELSE CASE err.kind = "BadRequest" -> 400
           [] err.kind = "Unauthorized" -> 401
           [] err.kind = "Forbidden" -> 403
           [] err.kind = "NotExist" -> 404
           [] OTHER -> 500

C10_OwnershipFailureDistinct ==
    \A r \in Reqs :
       (IsSecretMutation(r) /\ Failed(r, "IsAuthUserVariableOwner")) =>
          /\ pc[r] = "done"
          /\ ret[r].t = "wrapped"
          /\ ret[r].msg = "failed to determine ownership"
          /\ \E i \in CallIdx(r, "IsAuthUserVariableOwner") :
                ret[r].causeT = calls[r][i].err.t /\ ret[r].causeKind = calls[r][i].err.kind
          /\ ret[r] # NewAPIError(ErrForbidden, "user not authorized")
          /\ retval[r] = <<>>
          /\ NoStoreMutation(r)

C10_Witness ==
    \E r \in Reqs :
       /\ inp[r].op = "DeleteSecret" /\ Failed(r, "IsAuthUserVariableOwner") /\ pc[r] = "done"
       /\ ret[r].t = "wrapped" /\ ret[r].causeKind = ErrForbidden

(***************************************************************************)
(* The store calls of a secret operation, read from its call log.          *)
(***************************************************************************)
DeleteOps == {"DeleteProjectGroupSecret", "DeleteProjectSecret"}

KnownKind(r) == inp[r].ParentType \in {ObjectKindProjectGroup, ObjectKindProject}

\* the positions of the log that hold a call of one of ops
CallsOf(r, ops) == {i \in 1..Len(calls[r]) : calls[r][i].op \in ops}

(***************************************************************************)
(* C11: when an owner calls DeleteSecret and the store answers the delete  *)
(* with its not-found error (the secret does not exist), DeleteSecret      *)
(* fails with an error that carries the not-found classification, never    *)
(* the Internal one, for the Project and the ProjectGroup parent kind.     *)
(***************************************************************************)
C11_DeleteMissingIsNotFound ==
    \A r \in Reqs :
       inp[r].op = "DeleteSecret" =>
          \A i \in CallsOf(r, DeleteOps) :
             calls[r][i].err = RemoteError(ErrNotExist) =>
                /\ GuardSaidOwner(r) /\ KnownKind(r)
                /\ pc[r] = "done"
                /\ ret[r].t = "api" /\ ret[r].kind = ErrNotExist /\ ret[r].kind # ErrInternal
                /\ HTTPErrorStatus(ret[r]) = 404

C11_Witness ==
    \E r \in Reqs :
       /\ inp[r].op = "DeleteSecret" /\ inp[r].ParentType = ObjectKindProjectGroup
       /\ GuardSaidOwner(r) /\ pc[r] = "done"
       /\ \E i \in CallsOf(r, DeleteOps) : calls[r][i].err = RemoteError(ErrNotExist)
       /\ ret[r].kind = ErrNotExist

(***************************************************************************)
(* The store read of a GetSecrets request, read from its call log.         *)
(***************************************************************************)
IsGetSecrets(r) == inp[r].op = "GetSecrets"

ReadSucceeded(r) == \E i \in CallsOf(r, StoreReadOps) : calls[r][i].err.t = "nil"

ReadFailed(r) == \E i \in CallsOf(r, StoreReadOps) : calls[r][i].err.t # "nil"

\* the list the store answered the read with
StoreList(r) == calls[r][CHOOSE i \in CallsOf(r, StoreReadOps) : TRUE].res

\* the positions of list that hold a secret named name
Named(list, name) == {i \in 1..Len(list) : list[i].Name = name}

(***************************************************************************)
(* C12: a GetSecrets call with the remove-overridden flag returns, for     *)
(* every name that occurs in the store's answer, exactly one secret of     *)
(* that name: one of the answer, declared at the deepest level the name    *)
(* occurs at.  A name that occurs once passes unchanged, and the result    *)
(* holds nothing that the answer does not hold.                            *)
(***************************************************************************)
C12_DeepestSecretPerName ==
    \A r \in Reqs :
       (IsGetSecrets(r) /\ inp[r].RemoveOverridden /\ ReadSucceeded(r)) =>
          /\ pc[r] = "done" /\ ret[r] = NilErr
          /\ \A k \in 1..Len(retval[r]) : \E i \in 1..Len(StoreList(r)) : retval[r][k] = StoreList(r)[i]
          /\ \A i \in 1..Len(StoreList(r)) :
                /\ Cardinality(Named(retval[r], StoreList(r)[i].Name)) = 1
                /\ \A k \in Named(retval[r], StoreList(r)[i].Name) :
                      PathLen(retval[r][k].ParentPath) >= PathLen(StoreList(r)[i].ParentPath)
                /\ Cardinality(Named(StoreList(r), StoreList(r)[i].Name)) = 1 =>
                      \E k \in 1..Len(retval[r]) : retval[r][k] = StoreList(r)[i]

C12_Witness ==
    \E r \in Reqs :
       /\ IsGetSecrets(r) /\ inp[r].RemoveOverridden /\ ReadSucceeded(r) /\ pc[r] = "done"
       /\ Len(StoreList(r)) = 3 /\ Len(retval[r]) = 2
       /\ StoreList(r)[1].Name = StoreList(r)[2].Name
       /\ StoreList(r)[1].ParentPath = "org1/group1"
       /\ retval[r][1] = StoreList(r)[2]

(***************************************************************************)
(* C13: the webhook pipeline calls its stages in one fixed order:          *)
(* GetProject, GetUserByLinkedAccount, GetUserLinkedAccounts, (the scan    *)
(* for the linked account), GetRemoteSource, the provider client           *)
(* construction, ParseWebhook, CreateRuns, each at most once.  A stage is  *)
(* called only after every earlier one succeeded, so a failure is the last *)
(* call of the request and ends it with an error; CreateRuns is called     *)
(* only after the scan found the linked account and the parser returned an *)
(* event.                                                                  *)
(***************************************************************************)
Stages == <<"GetProject", "GetUserByLinkedAccount", "GetUserLinkedAccounts", "GetRemoteSource",
            "GetGitSource", "ParseWebhook", "CreateRuns">>

C13_StagesInOrder ==
    \A r \in Reqs :
       IsWebhook(r) =>
          /\ Len(calls[r]) <= Len(Stages)
          /\ \A i \in 1..Len(calls[r]) :
                /\ calls[r][i].op = Stages[i]
                /\ i < Len(calls[r]) => calls[r][i].err.t = "nil"
                /\ calls[r][i].err.t # "nil" => (DoReturned(r) /\ ret[r].t # "nil")
          /\ Len(calls[r]) > 3 => LinkedAccountPresent(r)
          /\ LinkedAccountAbsent(r) => (DoReturned(r) /\ ret[r].t # "nil")
          /\ Called(r, "CreateRuns") =>
                /\ \A k \in 1..(Len(Stages) - 1) : Succeeded(r, Stages[k])
                /\ ~Answer(r, "ParseWebhook").isNil

C13_Witness ==
    \E r \in Reqs :
       /\ IsWebhook(r) /\ pc[r] = "done"
       /\ Len(calls[r]) = 7 /\ Succeeded(r, "CreateRuns")
       /\ ret[r] = NilErr

C13_FailureWitness ==
    \E r \in Reqs :
       /\ IsWebhook(r) /\ pc[r] = "done"
       /\ Len(calls[r]) = 4 /\ Failed(r, "GetRemoteSource")
       /\ ret[r].t = "api"

(***************************************************************************)
(* C14: for the parent kinds Project and ProjectGroup, a CreateSecret,     *)
(* UpdateSecret or DeleteSecret call makes at most one store mutation      *)
(* call; every one it makes is the operation of the request's kind (create,*)
(* update, delete) for the request's parent kind, never the other parent   *)
(* kind's, with the request's parent reference; and once the guard has     *)
(* answered 'owner' and (create, update) the name is valid, the finished   *)
(* call has made exactly one.                                              *)
(***************************************************************************)
\* the store operation that belongs to a secret operation and a parent kind
MatchingStoreOp(op, parentType) ==
    CASE op = "CreateSecret" /\ parentType = ObjectKindProjectGroup -> "CreateProjectGroupSecret"
      [] op = "CreateSecret" /\ parentType = ObjectKindProject -> "CreateProjectSecret"
      [] op = "UpdateSecret" /\ parentType = ObjectKindProjectGroup -> "UpdateProjectGroupSecret"
      [] op = "UpdateSecret" /\ parentType = ObjectKindProject -> "UpdateProjectSecret"
      [] op = "DeleteSecret" /\ parentType = ObjectKindProjectGroup -> "DeleteProjectGroupSecret"
      [] op = "DeleteSecret" /\ parentType = ObjectKindProject -> "DeleteProjectSecret"
      [] OTHER -> "none"

\* the request passes the checks that stand before the store call
PassesChecks(r) ==
    /\ GuardSaidOwner(r)
    /\ inp[r].op \in {"CreateSecret", "UpdateSecret"} => ValidateName(inp[r].Name)

C14_OneMatchingStoreCall ==
    \A r \in Reqs :
       (IsSecretMutation(r) /\ KnownKind(r)) =>
          /\ Cardinality(CallsOf(r, StoreMutationOps)) <= 1
          /\ \A i \in CallsOf(r, StoreMutationOps) :
                /\ calls[r][i].op = MatchingStoreOp(inp[r].op, inp[r].ParentType)
                /\ calls[r][i].ref = inp[r].ParentRef
          /\ (PassesChecks(r) /\ pc[r] = "done") => Cardinality(CallsOf(r, StoreMutationOps)) = 1

C14_Witness ==
    \E r \in Reqs :
       /\ inp[r].op = "DeleteSecret" /\ inp[r].ParentType = ObjectKindProject
       /\ inp[r].ParentRef = "org1/group1/project1"
       /\ PassesChecks(r) /\ pc[r] = "done"
       /\ \E i \in CallsOf(r, StoreMutationOps) :
             calls[r][i].op = "DeleteProjectSecret" /\ calls[r][i].ref = "org1/group1/project1"

(***************************************************************************)
(* C15: DeleteSecret is gated by the ownership guard only.  It never fails *)
(* with the invalid-secret-name error, whatever the name; a store delete   *)
(* is called only after the guard answered 'owner'; and for an owner and   *)
(* any name, the empty one and the ones the name-syntax rule rejects       *)
(* included, the finished call has called the store delete of the parent   *)
(* kind with that name unchanged.                                          *)
(***************************************************************************)
C15_DeleteGatedByOwnershipOnly ==
    \A r \in Reqs :
       inp[r].op = "DeleteSecret" =>
          /\ ~(ret[r].t = "api" /\ ret[r].code = InvalidSecretName)
          /\ CallsOf(r, DeleteOps) # {} => GuardSaidOwner(r)
          /\ (GuardSaidOwner(r) /\ KnownKind(r) /\ pc[r] = "done") =>
                \E i \in CallsOf(r, DeleteOps) :
                   /\ calls[r][i].op = MatchingStoreOp("DeleteSecret", inp[r].ParentType)
                   /\ calls[r][i].name = inp[r].Name
                   /\ calls[r][i].ref = inp[r].ParentRef

C15_Witness ==
    \E r \in Reqs :
       /\ inp[r].op = "DeleteSecret" /\ inp[r].ParentType = ObjectKindProjectGroup
       /\ inp[r].Name = <<>> /\ ~ValidateName(inp[r].Name)
       /\ GuardSaidOwner(r) /\ pc[r] = "done" /\ ret[r] = NilErr
       /\ \E i \in CallsOf(r, DeleteOps) : calls[r][i].name = <<>>

C15_InvalidNameWitness ==
    \E r \in Reqs :
       /\ inp[r].op = "DeleteSecret" /\ inp[r].Name = <<"a", " ">>
       /\ GuardSaidOwner(r) /\ pc[r] = "done"
       /\ \E i \in CallsOf(r, DeleteOps) : calls[r][i].name = <<"a", " ">>

(***************************************************************************)
(* C16: GetSecrets is read-only.  It never calls the ownership guard and   *)
(* never a store mutation; its one store read is the read of the parent    *)
(* kind, with the request's parent reference and the request's tree flag   *)
(* unchanged.  With the remove-overridden flag unset it returns exactly    *)
(* the list the store answered with, with the flag set the filtered list;  *)
(* when the read fails it returns an error and no secrets.                 *)
(***************************************************************************)
C16_GetSecretsReadOnly ==
    \A r \in Reqs :
       IsGetSecrets(r) =>
          /\ ~Called(r, "IsAuthUserVariableOwner")
          /\ NoStoreMutation(r)
          /\ Cardinality(CallsOf(r, StoreReadOps)) = Len(calls[r]) /\ Len(calls[r]) <= 1
          /\ \A i \in CallsOf(r, StoreReadOps) :
                /\ calls[r][i].tree = inp[r].Tree
                /\ calls[r][i].ref = inp[r].ParentRef
                /\ calls[r][i].op = (IF inp[r].ParentType = ObjectKindProjectGroup
                                     THEN "GetProjectGroupSecrets" ELSE "GetProjectSecrets")
                /\ KnownKind(r)
          /\ (ReadSucceeded(r) /\ ~inp[r].RemoveOverridden) =>
                (pc[r] = "done" /\ ret[r] = NilErr /\ retval[r] = StoreList(r))
          /\ (ReadSucceeded(r) /\ inp[r].RemoveOverridden) =>
                (pc[r] = "done" /\ ret[r] = NilErr /\ retval[r] = FilterOverriddenSecrets(StoreList(r)))
          /\ ReadFailed(r) =>
                (pc[r] = "done" /\ ret[r].t = "api" /\ retval[r] = <<>>)

C16_Witness ==
    \E r \in Reqs :
       /\ IsGetSecrets(r) /\ ~inp[r].RemoveOverridden /\ inp[r].Tree
       /\ ReadSucceeded(r) /\ pc[r] = "done"
       /\ Len(StoreList(r)) = 2 /\ StoreList(r)[1].Name = StoreList(r)[2].Name
       /\ retval[r] = StoreList(r)
       /\ \E i \in CallsOf(r, StoreReadOps) : calls[r][i].tree

C16_FailureWitness ==
    \E r \in Reqs :
       /\ IsGetSecrets(r) /\ ReadFailed(r) /\ pc[r] = "done"
       /\ ret[r].kind = ErrNotExist /\ retval[r] = <<>>

(***************************************************************************)
(* C17: every request handed to CreateRuns, whatever the kind and the      *)
(* payload of the event, has run type 'project', creation trigger          *)
(* 'webhook' and no user; its project is the one GetProject answered with, *)
(* its clone URL the SSH URL of the parsed event, its SSH private key the  *)
(* project's and its SSH host key the remote source's.                     *)
(***************************************************************************)
C17_RunRequestInvariants ==
    \A r \in Reqs :
       \A i \in CallIdx(r, "CreateRuns") :
          /\ calls[r][i].req.RunType = "project"
          /\ calls[r][i].req.RunCreationTrigger = "webhook"
          /\ calls[r][i].req.User.isNil
          /\ calls[r][i].req.Project = Answer(r, "GetProject")
          /\ ~calls[r][i].req.Project.isNil
          /\ calls[r][i].req.CloneURL = Answer(r, "ParseWebhook").SSHURL
          /\ calls[r][i].req.SSHPrivKey = Answer(r, "GetProject").SSHPrivateKey
          /\ calls[r][i].req.SSHHostKey = Answer(r, "GetRemoteSource").SSHHostKey

C17_Witness ==
    \E r \in Reqs :
       \E i \in CallIdx(r, "CreateRuns") :
          /\ Answer(r, "ParseWebhook").Event = "pull_request"
          /\ Answer(r, "ParseWebhook").SSHURL = "ssh://git@mirror/org/repo.git"
          /\ calls[r][i].req.CloneURL = "ssh://git@mirror/org/repo.git"
          /\ calls[r][i].req.SSHPrivKey = "project-ssh-private-key"
          /\ calls[r][i].req.SSHHostKey = "remotesource-ssh-host-key"
          /\ calls[r][i].req.RunType = "project"

(***************************************************************************)
(* C19: in CreateSecret and UpdateSecret the ownership guard is asked      *)
(* before the name is checked.  A call ends with the invalid-secret-name   *)
(* error only when the guard answered 'owner' and the name (Name) is       *)
(* invalid; a non-owner with an invalid name gets Forbidden.  UpdateSecret *)
(* checks the new name (Name), not the name of the secret to update        *)
(* (SecretName): an invalid SecretName with a valid Name is not rejected   *)
(* and reaches the store, a valid SecretName with an invalid Name is       *)
(* rejected.                                                               *)
(***************************************************************************)
InvalidNameError(err) == err.t = "api" /\ err.code = InvalidSecretName

C19_GuardBeforeValidation ==
    \A r \in Reqs :
       inp[r].op \in {"CreateSecret", "UpdateSecret"} =>
          /\ InvalidNameError(ret[r]) => (GuardSaidOwner(r) /\ ~ValidateName(inp[r].Name))
          /\ (GuardSaidNotOwner(r) /\ ~ValidateName(inp[r].Name)) =>
                (pc[r] = "done" /\ ret[r].t = "api" /\ ret[r].kind = ErrForbidden /\ ~InvalidNameError(ret[r]))
          /\ pc[r] # "idle" /\ pc[r] # inp[r].op => Called(r, "IsAuthUserVariableOwner")
          /\ (inp[r].op = "UpdateSecret" /\ GuardSaidOwner(r) /\ pc[r] = "done") =>
                /\ ~ValidateName(inp[r].Name) => InvalidNameError(ret[r])
                /\ (ValidateName(inp[r].Name) /\ KnownKind(r)) =>
                      \E i \in CallsOf(r, StoreMutationOps) : calls[r][i].name = inp[r].SecretName

C19_Witness ==
    \E r \in Reqs :
       /\ inp[r].op = "CreateSecret" /\ GuardSaidNotOwner(r) /\ ~ValidateName(inp[r].Name)
       /\ pc[r] = "done" /\ ret[r].kind = ErrForbidden

C19_UpdateWitness ==
    \E r \in Reqs :
       /\ inp[r].op = "UpdateSecret" /\ GuardSaidOwner(r) /\ pc[r] = "done"
       /\ ValidateName(inp[r].Name) /\ ~ValidateName(inp[r].SecretName)
       /\ ret[r] = NilErr
       /\ \E i \in CallsOf(r, StoreMutationOps) : calls[r][i].name = inp[r].SecretName

(***************************************************************************)
(* C20: a secret operation never reports success without its store call.   *)
(* For every parent kind, one that is neither Project nor ProjectGroup     *)
(* included, when GetSecrets or DeleteSecret has returned without error,   *)
(* or CreateSecret or UpdateSecret has returned a secret, the request has  *)
(* made exactly one store call of the corresponding operation and what it  *)
(* returns is what the store returned.                                     *)
(***************************************************************************)
\* the store operations that correspond to a secret operation
StoreOpsOf(op) ==
    CASE op = "GetSecrets" -> StoreReadOps
      [] op = "CreateSecret" -> {"CreateProjectGroupSecret", "CreateProjectSecret"}
      [] op = "UpdateSecret" -> {"UpdateProjectGroupSecret", "UpdateProjectSecret"}
      [] op = "DeleteSecret" -> DeleteOps
      [] OTHER -> {}

\* the secret operation of request r has returned and reports success
ReportsSuccess(r) ==
    /\ pc[r] = "done"
    /\ \/ inp[r].op \in {"GetSecrets", "DeleteSecret"} /\ ret[r] = NilErr
       \/ inp[r].op \in {"CreateSecret", "UpdateSecret"} /\ retval[r] # <<>>

C20_SuccessOnlyAfterStoreCall ==
    \A r \in Reqs :
       ReportsSuccess(r) =>
          /\ Cardinality(CallsOf(r, StoreOpsOf(inp[r].op))) = 1
          /\ \A i \in CallsOf(r, StoreOpsOf(inp[r].op)) : calls[r][i].err.t = "nil"
          /\ inp[r].op = "GetSecrets" =>
                retval[r] = (IF inp[r].RemoveOverridden THEN FilterOverriddenSecrets(StoreList(r))
                             ELSE StoreList(r))
          /\ inp[r].op \in {"CreateSecret", "UpdateSecret"} =>
                \A i \in CallsOf(r, StoreOpsOf(inp[r].op)) :
                   retval[r] = <<StoredSecret(calls[r][i].ref, calls[r][i].creq)>>

\* the part of C20 that the code keeps: the two parent kinds that have store operations
C20_KnownKindSuccessOnlyAfterStoreCall ==
    \A r \in Reqs :
       (ReportsSuccess(r) /\ KnownKind(r)) =>
          /\ Cardinality(CallsOf(r, StoreOpsOf(inp[r].op))) = 1
          /\ \A i \in CallsOf(r, StoreOpsOf(inp[r].op)) : calls[r][i].err.t = "nil"

\* a DeleteSecret on a parent kind without store operations that reports success
C20_SilentSuccess ==
    \E r \in Reqs :
       /\ inp[r].op = "DeleteSecret" /\ ~KnownKind(r) /\ GuardSaidOwner(r)
       /\ pc[r] = "done" /\ ret[r] = NilErr
       /\ CallsOf(r, StoreMutationOps) = {}

(***************************************************************************)
(* Concurrent handling: the HTTP server runs every request in a goroutine  *)
(* of its own, so the steps of the requests interleave freely.  To keep    *)
(* the product of the requests' states small, the requests and the         *)
(* collaborators' answers are drawn from a part of the sets above.         *)
(***************************************************************************)
ConcInputs ==
    {[NoInp EXCEPT !.op = "webhook", !.projectid = q] : q \in {"", "p1"}}
    \cup {[NoInp EXCEPT !.op = "CreateSecret", !.ParentType = ObjectKindProject,
                        !.ParentRef = "org1/group1/project1", !.Name = n, !.Type = "internal"] :
          n \in {<<"a">>, <<" ">>}}
    \cup {[NoInp EXCEPT !.op = "UpdateSecret", !.ParentType = ObjectKindProjectGroup,
                        !.ParentRef = "org1/group1", !.SecretName = <<"a", "1">>,
                        !.Name = <<"a">>, !.Type = "internal"]}
    \cup {[NoInp EXCEPT !.op = "DeleteSecret", !.ParentType = pt,
                        !.ParentRef = "org1/group1/project1", !.Name = <<"a">>] :
          pt \in {ObjectKindProject, "org"}}
    \cup {[NoInp EXCEPT !.op = "GetSecrets", !.ParentType = ObjectKindProject,
                        !.ParentRef = "org1/group1/project1", !.Tree = TRUE, !.RemoveOverridden = TRUE]}

\* a request of ConcInputs arrives: the arrival actions above, with the smaller input set
ArriveConc(r) ==
    /\ pc[r] = "idle"
    /\ \E i \in ConcInputs :
          /\ inp' = [inp EXCEPT ![r] = i]
          /\ pc' = [pc EXCEPT ![r] = IF i.op = "webhook" THEN "do" ELSE i.op]
    /\ UNCHANGED <<loc, calls, bodyClosed, ret, retval, resp>>

SmallErr(err) == err \in {NilErr, RemoteError(ErrNotExist)}

SmallAnswer(c) ==
    CASE c.op = "GetProject" ->
            SmallErr(c.err) /\ (c.err = NilErr => (c.res.LinkedAccountID = "la1" /\ ~c.res.SkipSSHHostKeyCheck))
      [] c.op = "GetUserByLinkedAccount" -> c.err = NilErr
      [] c.op = "GetUserLinkedAccounts" ->
            c.err = NilErr /\ Len(c.res) = 1 /\ c.res[1].RemoteSourceID = "rs1"
      [] c.op = "GetRemoteSource" -> c.err = NilErr /\ c.res.SkipSSHHostKeyCheck
      [] c.op = "GetGitSource" -> c.err = NilErr
      [] c.op = "ParseWebhook" ->
            c.err = NilErr /\ (c.res.isNil \/ (c.res.Event = "push" /\ c.res.SSHURL = "ssh://git@host/org/repo.git"))
      [] c.op = "CreateRuns" -> c.err \in {NilErr, PlainError("run creation failed")}
      [] c.op = "IsAuthUserVariableOwner" -> c.err \in {NilErr, PlainError("context canceled")}
      [] c.op \in StoreReadOps ->
            SmallErr(c.err) /\ (c.err = NilErr => (Len(c.res) = 2 /\ c.res[1].Name = c.res[2].Name))
      [] OTHER -> SmallErr(c.err)

SmallWorld ==
    \A r \in Reqs :
       \A k \in 1..Len(calls[r]) : SmallAnswer(calls[r][k])

NextConc ==
    \E r \in Reqs :
       \/ ArriveConc(r)
       \/ DoProjectID(r)
       \/ DoGetProject(r) /\ SmallWorld'
       \/ DoGetUserByLinkedAccount(r) /\ SmallWorld'
       \/ DoGetUserLinkedAccounts(r) /\ SmallWorld'
       \/ DoGetRemoteSource(r) /\ SmallWorld'
       \/ DoGetGitSource(r) /\ SmallWorld'
       \/ DoParseWebhook(r) /\ SmallWorld'
       \/ DoCreateRuns(r) /\ SmallWorld'
       \/ ServeHTTP(r) /\ SmallWorld'
       \/ CreateSecretOwner(r) /\ SmallWorld'
       \/ CreateSecretStore(r) /\ SmallWorld'
       \/ UpdateSecretOwner(r) /\ SmallWorld'
       \/ UpdateSecretStore(r) /\ SmallWorld'
       \/ DeleteSecretOwner(r) /\ SmallWorld'
       \/ DeleteSecretStore(r) /\ SmallWorld'
       \/ GetSecrets(r) /\ SmallWorld'
       \/ Finish(r)

SpecConc == Init /\ [][NextConc]_vars

(***************************************************************************)
(* The handlers run alone: what a handler does, as a function of its input *)
(* and of the answers it has received so far.  It either makes its next    *)
(* collaborator call or returns.                                           *)
(***************************************************************************)
SeqCall(op, ref) == [next |-> op, ref |-> ref, ret |-> NilErr, retval |-> <<>>]

SeqReturn(err, val) == [next |-> "return", ref |-> "", ret |-> err, retval |-> val]

StageError(op, err) ==
    CASE op = "GetProject" -> ErrGetProject(err)
      [] op = "GetUserByLinkedAccount" -> ErrGetUserByLinkedAccount(err)
      [] op = "GetUserLinkedAccounts" -> ErrGetUserLinkedAccounts(err)
      [] op = "GetRemoteSource" -> ErrGetRemoteSource(err)
      [] op = "GetGitSource" -> ErrGetGitSource(err)
      [] op = "ParseWebhook" -> ErrParseWebhook(err)
      [] OTHER -> ErrCreateRuns(err)

SeqWebhook(i, cs) ==
    LET n == Len(cs) IN
    IF MissingProjectID(QueryGet(i.projectid)) THEN SeqReturn(ErrMissingProjectID, <<>>)
    ELSE IF n = 0 THEN SeqCall("GetProject", QueryGet(i.projectid))
    ELSE IF cs[n].err.t # "nil" THEN SeqReturn(StageError(cs[n].op, cs[n].err), <<>>)
    ELSE CASE cs[n].op = "GetProject" -> SeqCall("GetUserByLinkedAccount", cs[n].res.LinkedAccountID)
           [] cs[n].op = "GetUserByLinkedAccount" -> SeqCall("GetUserLinkedAccounts", cs[n].res.ID)
           [] cs[n].op = "GetUserLinkedAccounts" ->
                 LET la == FindLinkedAccount(cs[n].res, cs[1].res.LinkedAccountID) IN
                    IF la.isNil THEN SeqReturn(ErrLinkedAccountMissing, <<>>)
                    ELSE SeqCall("GetRemoteSource", la.RemoteSourceID)
           [] cs[n].op = "GetRemoteSource" -> SeqCall("GetGitSource", "")
           [] cs[n].op = "GetGitSource" -> SeqCall("ParseWebhook", "")
           [] cs[n].op = "ParseWebhook" ->
                 IF SkipWebhook(cs[n].res) THEN SeqReturn(NilErr, <<>>) ELSE SeqCall("CreateRuns", "")
           [] OTHER -> SeqReturn(NilErr, <<>>)

SecretError(op, err) ==
    CASE op = "CreateSecret" -> ErrCreateSecret(err)
      [] op = "UpdateSecret" -> ErrUpdateSecret(err)
      [] OTHER -> ErrDeleteSecret(err)

SeqGetSecrets(i, cs) ==
    IF Len(cs) = 0
    THEN CASE i.ParentType = ObjectKindProjectGroup -> SeqCall("GetProjectGroupSecrets", i.ParentRef)
           [] i.ParentType = ObjectKindProject -> SeqCall("GetProjectSecrets", i.ParentRef)
           [] OTHER -> SeqReturn(NilErr, <<>>)
    ELSE IF cs[1].err.t # "nil" THEN SeqReturn(ErrGetSecrets(cs[1].err), <<>>)
    ELSE IF RemoveOverridden(i.RemoveOverridden) THEN SeqReturn(NilErr, FilterOverriddenSecrets(cs[1].res))
    ELSE SeqReturn(NilErr, cs[1].res)

SeqSecretMutation(i, cs) ==
    IF Len(cs) = 0 THEN SeqCall("IsAuthUserVariableOwner", i.ParentRef)
    ELSE IF Len(cs) = 1
    THEN IF cs[1].err.t # "nil" THEN SeqReturn(ErrOwnership(cs[1].err), <<>>)
         ELSE IF NotVariableOwner(cs[1].res) THEN SeqReturn(ErrNotAuthorized, <<>>)
         ELSE IF i.op # "DeleteSecret" /\ InvalidName(i.Name) THEN SeqReturn(ErrInvalidSecretName, <<>>)
         ELSE IF i.ParentType \in {ObjectKindProjectGroup, ObjectKindProject}
              THEN SeqCall(MatchingStoreOp(i.op, i.ParentType), i.ParentRef)
         ELSE IF i.op = "DeleteSecret" THEN SeqReturn(NilErr, <<>>)
         ELSE SeqReturn(PanicNilDeref, <<>>)
    ELSE IF cs[2].err.t # "nil" THEN SeqReturn(SecretError(i.op, cs[2].err), <<>>)
    ELSE IF i.op = "DeleteSecret" THEN SeqReturn(NilErr, <<>>)
    ELSE SeqReturn(NilErr, <<StoredSecret(i.ParentRef, CreateUpdateSecretRequest(i.Name, i.Type, SecretData))>>)

Sequential(i, cs) ==
    CASE i.op = "webhook" -> SeqWebhook(i, cs)
      [] i.op = "GetSecrets" -> SeqGetSecrets(i, cs)
      [] OTHER -> SeqSecretMutation(i, cs)

\* the calls that are logged with the reference they are made with
HasRef(op) == op \notin {"GetGitSource", "ParseWebhook", "CreateRuns"}

\* the calls and the outcome of request r are those of its handler run alone on the
\* request's input and the answers the request received
AsAlone(r) ==
    /\ \A k \in 1..Len(calls[r]) :
          LET s == Sequential(inp[r], SubSeq(calls[r], 1, k - 1)) IN
             /\ s.next = calls[r][k].op
             /\ HasRef(s.next) => calls[r][k].ref = s.ref
    /\ LET s == Sequential(inp[r], calls[r]) IN
          IF pc[r] \in {"ServeHTTP", "done"}
          THEN s.next = "return" /\ ret[r] = s.ret /\ retval[r] = s.retval
          ELSE (IsWebhook(r) /\ pc[r] # "do") => s.next = pc[r]
    /\ (IsWebhook(r) /\ pc[r] = "done") =>
          resp[r].status = (IF ret[r].t = "nil" THEN StatusOK ELSE HTTPErrorStatus(ret[r]))

\* the state of request r
ReqState(r) == <<pc[r], inp[r], loc[r], calls[r], bodyClosed[r], ret[r], retval[r], resp[r]>>

\* a step changes the state of one request and leaves the state of every other alone
OneRequestSteps == \E r \in Reqs : \A q \in Reqs \ {r} : ReqState(q)' = ReqState(q)

(***************************************************************************)
(* C18: requests are independent.  In every interleaving of the steps of   *)
(* concurrently handled requests, each request makes the calls and ends    *)
(* with the outcome of its handler run alone on the same input with the    *)
(* same answers, and no step of a request changes the state of another     *)
(* request.                                                                *)
(***************************************************************************)
C18_RequestsIndependent ==
    /\ [](\A r \in Reqs : pc[r] # "idle" => AsAlone(r))
    /\ [][OneRequestSteps]_vars

C18_Witness ==
    \E r, q \in Reqs :
       /\ r # q
       /\ IsWebhook(r) /\ pc[r] = "GetRemoteSource" /\ Len(calls[r]) = 3
       /\ inp[q].op = "CreateSecret" /\ pc[q] = "CreateSecretStore" /\ Len(calls[q]) = 1

C18_FinishedWitness ==
    \E r, q \in Reqs :
       /\ r # q
       /\ IsWebhook(r) /\ pc[r] = "done" /\ Failed(r, "CreateRuns") /\ resp[r].status = 500
       /\ IsWebhook(q) /\ pc[q] = "done" /\ Succeeded(q, "CreateRuns") /\ resp[q].status = 200

====
